---- MODULE Spec2Model ----
(***************************************************************************)
(* Model of the market-data pipeline of src/py/evalutate.py and            *)
(* src/py/stable.py: the file cache with its 24 hour freshness window, the *)
(* fetchers built on it, the reshaping of the fetched JSON into tables     *)
(* indexed by date, compute_ratio, and the fixed pipeline of main.         *)
(***************************************************************************)
EXTENDS Integers, Sequences, FiniteSets, TLC

(***************************************************************************)
(* Bounds of the model.                                                    *)
(***************************************************************************)
\* the clock stops at this many hours
MaxTime == 24
\* hours that pass in one step of the clock
TickHours == 12
\* invocations of the script within one behaviour
MaxRuns == 2
\* how many entries of the chain list of main a run works through
NumChains == 2
\* the days the tables handed to compute_ratio on its own may be indexed by
MaxDay == 2

(***************************************************************************)
(* Program constants.                                                      *)
(***************************************************************************)
\* stable.py: CACHE_TTL = timedelta(hours=24); evalutate.py: timedelta(days=1)
CACHE_TTL == 24
\* milliseconds in a day: pd.to_datetime(..., unit='ms') keeps the time of day
MS_PER_DAY == 86400000
\* seconds in a day: utcfromtimestamp / pd.to_datetime(..., unit='s')
SEC_PER_DAY == 86400
\* milliseconds in a second
MS_PER_SEC == 1000

ETH_CHAIN == "Ethereum"
L2_CHAINS == <<"Optimism", "Arbitrum", "Polygon", "zkSync", "Base", "StarkNet", "Scroll">>
\* the list local to get_filtered_stablecoins_total_supply
l2_chains == <<"Base", "Optimism", "Arbitrum", "Polygon", "zkSync Lite", "StarkNet", "Scroll">>
\* the chain descriptors of main, in order
main_chains == <<"Ethereum", "Solana", "Avalanche", "Tron", "Near", "Aptos">>
chains == SubSeq(main_chains, 1, NumChains)

Range(s) == {s[i] : i \in DOMAIN s}

(***************************************************************************)
(* JSON values as trees, and their text as a sequence of tokens.           *)
(* Every node has the same fields, so any two nodes can be compared.       *)
(***************************************************************************)
JNum(x) == [t |-> "num", n |-> x, s |-> "", k |-> <<>>, v |-> <<>>]
JStr(x) == [t |-> "str", n |-> 0, s |-> x, k |-> <<>>, v |-> <<>>]
JArr(items) == [t |-> "arr", n |-> 0, s |-> "", k |-> <<>>, v |-> items]
JObj(keys, vals) == [t |-> "obj", n |-> 0, s |-> "", k |-> keys, v |-> vals]
\* Python's None, and the result of a failed parse
JNull == [t |-> "null", n |-> 0, s |-> "", k |-> <<>>, v |-> <<>>]

\* `key in data` and data[key] for a dict
HasKey(j, key) == j.t = "obj" /\ \E i \in DOMAIN j.k : j.k[i] = key
Get(j, key) == j.v[CHOOSE i \in DOMAIN j.k : j.k[i] = key]

Punct(p) == [c |-> "p", s |-> p, n |-> 0]
NumTok(x) == [c |-> "n", s |-> "", n |-> x]
StrTok(x) == [c |-> "s", s |-> x, n |-> 0]

RECURSIVE json_dump(_)
RECURSIVE DumpItems(_, _)
RECURSIVE DumpMembers(_, _, _)
\* the items of a list from position i on, separated by commas
DumpItems(items, i) ==
    IF i > Len(items) THEN <<>>
    ELSE (IF i > 1 THEN <<Punct(",")>> ELSE <<>>)
         \o json_dump(items[i]) \o DumpItems(items, i + 1)
\* the members of a dict from position i on: key : value
DumpMembers(keys, vals, i) ==
    IF i > Len(keys) THEN <<>>
    ELSE (IF i > 1 THEN <<Punct(",")>> ELSE <<>>)
         \o <<StrTok(keys[i]), Punct(":")>> \o json_dump(vals[i])
         \o DumpMembers(keys, vals, i + 1)
\* json.dump(data, f): the indent only adds white space, which is no token
json_dump(j) ==
    CASE j.t = "num" -> <<NumTok(j.n)>>
      [] j.t = "str" -> <<StrTok(j.s)>>
      [] j.t = "arr" -> <<Punct("[")>> \o DumpItems(j.v, 1) \o <<Punct("]")>>
      [] j.t = "obj" -> <<Punct("{")>> \o DumpMembers(j.k, j.v, 1) \o <<Punct("}")>>
      [] OTHER -> <<Punct("null")>>

IsPunct(toks, p, c) == p <= Len(toks) /\ toks[p].c = "p" /\ toks[p].s = c

\* a parse result: the value read and the position after it; ok is FALSE on
\* a syntax error
Parsed(val, pos) == [ok |-> TRUE, val |-> val, pos |-> pos]
ParseError == [ok |-> FALSE, val |-> JNull, pos |-> 0]

RECURSIVE ParseValue(_, _)
RECURSIVE ParseItems(_, _, _)
RECURSIVE ParseMembers(_, _, _, _)
\* after "[" or a comma: the items up to the closing "]"
ParseItems(toks, p, acc) ==
    LET r == ParseValue(toks, p) IN
    IF ~r.ok THEN ParseError
    ELSE IF IsPunct(toks, r.pos, "]") THEN Parsed(JArr(Append(acc, r.val)), r.pos + 1)
    ELSE IF IsPunct(toks, r.pos, ",") THEN ParseItems(toks, r.pos + 1, Append(acc, r.val))
    ELSE ParseError
\* after "{" or a comma: the members up to the closing "}"
ParseMembers(toks, p, ks, vs) ==
    IF ~(p + 1 <= Len(toks) /\ toks[p].c = "s" /\ IsPunct(toks, p + 1, ":"))
    THEN ParseError
    ELSE LET r == ParseValue(toks, p + 2) IN
         IF ~r.ok THEN ParseError
         ELSE IF IsPunct(toks, r.pos, "}")
              THEN Parsed(JObj(Append(ks, toks[p].s), Append(vs, r.val)), r.pos + 1)
         ELSE IF IsPunct(toks, r.pos, ",")
              THEN ParseMembers(toks, r.pos + 1, Append(ks, toks[p].s), Append(vs, r.val))
         ELSE ParseError
ParseValue(toks, p) ==
    IF p > Len(toks) THEN ParseError
    ELSE CASE toks[p].c = "n" -> Parsed(JNum(toks[p].n), p + 1)
           [] toks[p].c = "s" -> Parsed(JStr(toks[p].s), p + 1)
           [] IsPunct(toks, p, "null") -> Parsed(JNull, p + 1)
           [] IsPunct(toks, p, "[") ->
                IF IsPunct(toks, p + 1, "]") THEN Parsed(JArr(<<>>), p + 2)
                ELSE ParseItems(toks, p + 1, <<>>)
           [] IsPunct(toks, p, "{") ->
                IF IsPunct(toks, p + 1, "}") THEN Parsed(JObj(<<>>, <<>>), p + 2)
                ELSE ParseMembers(toks, p + 1, <<>>, <<>>)
           [] OTHER -> ParseError
\* json.load(f) / response.json(): ok is FALSE when the text is no JSON document
json_load(toks) ==
    LET r == ParseValue(toks, 1) IN
    IF r.ok /\ r.pos = Len(toks) + 1 THEN r ELSE ParseError

(***************************************************************************)
(* Index labels.  A pandas Timestamp keeps the instant to the millisecond: *)
(* it is its day and the time within the day.  A date string made by       *)
(* strftime('%Y-%m-%d') names a day only, and is a str, never equal to a   *)
(* Timestamp.                                                              *)
(***************************************************************************)
Timestamp(d, ms) == [ty |-> "ts", day |-> d, rem |-> ms]
DateStr(d) == [ty |-> "str", day |-> d, rem |-> 0]
\* pd.to_datetime(x, unit=unit), unit 'ms' or 's'
to_datetime(x, unit) ==
    IF unit = "ms" THEN Timestamp(x \div MS_PER_DAY, x % MS_PER_DAY)
    ELSE Timestamp(x \div SEC_PER_DAY, (x % SEC_PER_DAY) * MS_PER_SEC)
\* datetime.utcfromtimestamp(x).strftime('%Y-%m-%d')
strftime_date(x) == DateStr(x \div SEC_PER_DAY)

(***************************************************************************)
(* Cell values: a number n/d, NaN, or inf.                                 *)
(***************************************************************************)
Num(x) == [c |-> "num", n |-> x, d |-> 1]
NaN == [c |-> "nan", n |-> 0, d |-> 1]
Inf == [c |-> "inf", n |-> 0, d |-> 1]

RECURSIVE Gcd(_, _)
Gcd(a, b) == IF b = 0 THEN a ELSE Gcd(b, a % b)
\* a + b of two cells (whole numbers); NaN propagates
ValAdd(a, b) == IF a.c = "num" /\ b.c = "num" THEN Num(a.n + b.n) ELSE NaN
\* a / b of two cells holding whole numbers >= 0
ValDiv(a, b) ==
    IF a.c # "num" \/ b.c # "num" THEN NaN
    ELSE IF b.n = 0 THEN (IF a.n = 0 THEN NaN ELSE Inf)
    ELSE LET g == Gcd(a.n, b.n) IN [c |-> "num", n |-> a.n \div g, d |-> b.n \div g]

(***************************************************************************)
(* Tables (pandas DataFrames): the index labels, the column names and the  *)
(* cell of every (label, column).  Labels within a table are unique.       *)
(***************************************************************************)
DataFrame(index, columns, cell) == [kind |-> "df", idx |-> index, cols |-> columns, val |-> cell]
\* pd.DataFrame()
EmptyDf == DataFrame({}, {}, <<>>)
\* Python's None where a table is expected
NoneDf == [kind |-> "none", idx |-> {}, cols |-> {}, val |-> <<>>]
\* df.empty: no rows or no columns
IsEmpty(df) == df.idx = {} \/ df.cols = {}
\* the cell of (label, column), NaN where the table has none
Cell(df, i, col) == IF i \in df.idx /\ col \in df.cols THEN df.val[<<i, col>>] ELSE NaN

\* the outcome of a call: a value, or an exception that was raised
Ok(x) == [ok |-> TRUE, df |-> x, err |-> ""]
Raise(e) == [ok |-> FALSE, df |-> NoneDf, err |-> e]

\* pd.DataFrame(pairs, columns=['Date', name]), 'Date' converted by
\* pd.to_datetime(unit=unit) and made the index; pairs is a JSON list of
\* [timestamp, value] with distinct timestamps
PairsToDf(pairs, name, unit) ==
    LET I == DOMAIN pairs.v
        index == {to_datetime(pairs.v[i].v[1].n, unit) : i \in I}
    IN DataFrame(index, {name},
         [p \in index \X {name} |->
            Num(pairs.v[CHOOSE i \in I : to_datetime(pairs.v[i].v[1].n, unit) = p[1]].v[2].n)])

\* df.pivot(index='Date', columns='Chain', values='Supply').fillna(0) of a
\* list of records [Date, Chain, Supply]
pivot_fillna(records) ==
    IF records = <<>> THEN Raise("KeyError: 'Date'")
    ELSE IF \E i, j \in DOMAIN records :
              i # j /\ records[i].Date = records[j].Date /\ records[i].Chain = records[j].Chain
         THEN Raise("ValueError: Index contains duplicate entries, cannot reshape")
    ELSE LET index == {records[i].Date : i \in DOMAIN records}
             columns == {records[i].Chain : i \in DOMAIN records}
             Has(p) == \E i \in DOMAIN records :
                          records[i].Date = p[1] /\ records[i].Chain = p[2]
             At(p) == records[CHOOSE i \in DOMAIN records :
                                records[i].Date = p[1] /\ records[i].Chain = p[2]].Supply
         IN Ok(DataFrame(index, columns,
                 [p \in index \X columns |-> IF Has(p) THEN Num(At(p)) ELSE Num(0)]))

\* a.add(b, fill_value=0): the union of labels and of columns; a cell missing
\* on one side counts as 0, a cell missing on both sides is NaN
df_add(a, b) ==
    LET index == a.idx \cup b.idx
        columns == a.cols \cup b.cols
        InA(p) == p[1] \in a.idx /\ p[2] \in a.cols
        InB(p) == p[1] \in b.idx /\ p[2] \in b.cols
        Side(df, p, has) == IF has /\ df.val[p].c = "num" THEN df.val[p] ELSE Num(0)
        IsNum(df, p, has) == has /\ df.val[p].c = "num"
    IN DataFrame(index, columns,
         [p \in index \X columns |->
            IF ~IsNum(a, p, InA(p)) /\ ~IsNum(b, p, InB(p)) THEN NaN
            ELSE ValAdd(Side(a, p, InA(p)), Side(b, p, InB(p)))])

\* df[names].sum(axis=1) at label i: NaN cells are skipped
RECURSIVE RowSum(_, _, _, _)
RowSum(df, i, names, k) ==
    IF k > Len(names) THEN 0
    ELSE (IF df.val[<<i, names[k]>>].c = "num" THEN df.val[<<i, names[k]>>].n ELSE 0)
         + RowSum(df, i, names, k + 1)

\* pd.concat(dfs, axis=1): None entries are dropped silently, unless all are
\* None; the labels are joined (outer join), a missing cell is NaN
RECURSIVE ConcatCell(_, _, _, _)
ConcatCell(dfs, i, col, k) ==
    IF k > Len(dfs) THEN NaN
    ELSE IF dfs[k].kind = "df" /\ col \in dfs[k].cols THEN Cell(dfs[k], i, col)
    ELSE ConcatCell(dfs, i, col, k + 1)
pd_concat(dfs) ==
    LET kept == {k \in DOMAIN dfs : dfs[k].kind = "df"}
        index == UNION {dfs[k].idx : k \in kept}
        columns == UNION {dfs[k].cols : k \in kept}
    IN IF dfs = <<>> THEN Raise("ValueError: No objects to concatenate")
       ELSE IF kept = {} THEN Raise("ValueError: All objects passed were None")
       ELSE Ok(DataFrame(index, columns,
                 [p \in index \X columns |-> ConcatCell(dfs, p[1], p[2], 1)]))

\* the labels of the first table instead of the common ones
index_intersection_left(a, b) == a

\* a.index.intersection(b.index)
index_intersection(a, b) == {i \in a : i \in b}
\* df.loc[labels]: a label the table lacks is a KeyError
df_loc(df, labels) ==
    IF \E i \in labels : i \notin df.idx THEN Raise("KeyError")
    ELSE Ok(DataFrame(labels, df.cols, [p \in labels \X df.cols |-> df.val[p]]))
\* a / b: aligned on the union of labels and of columns, NaN where either
\* side has no cell
df_div(a, b) ==
    LET index == a.idx \cup b.idx
        columns == a.cols \cup b.cols
    IN DataFrame(index, columns,
         [p \in index \X columns |-> ValDiv(Cell(a, p[1], p[2]), Cell(b, p[1], p[2]))])

compute_ratio(df1, df2) ==
    LET common_dates == index_intersection(df1.idx, df2.idx)
        a == df_loc(df1, common_dates)
        b == df_loc(df2, common_dates)
    IN IF ~a.ok THEN a ELSE IF ~b.ok THEN b ELSE Ok(df_div(a.df, b.df))

(***************************************************************************)
(* The cache directory: one file per entity, named by its identifier.      *)
(* A file is its text and its modification time (hours).  evalutate.py     *)
(* names its files by token name under .cache of the working directory,    *)
(* stable.py by asset id (and "assets") under .cache beside the script:    *)
(* the names never coincide, so one directory holds them all.              *)
(***************************************************************************)
NoFile == [exists |-> FALSE, text |-> <<>>, mtime |-> 0]
File(text, t) == [exists |-> TRUE, text |-> text, mtime |-> t]

\* the comparison turned around: the file counts as fresh once it is old
is_cache_valid_reversed(files, t, cache_file_path) ==
    IF ~files[cache_file_path].exists THEN FALSE
    ELSE t - files[cache_file_path].mtime >= CACHE_TTL

is_cache_valid(files, t, cache_file_path) ==
    IF ~files[cache_file_path].exists THEN FALSE
    ELSE t - files[cache_file_path].mtime < CACHE_TTL

load_cache(files, cache_file_path) ==
    IF files[cache_file_path].exists
    THEN json_load(files[cache_file_path].text).val
    ELSE JNull

\* the file is closed before the last token reaches it
save_cache_truncating(files, t, cache_file_path, data) ==
    [files EXCEPT ![cache_file_path] =
        File(SubSeq(json_dump(data), 1, Len(json_dump(data)) - 1), t)]

save_cache(files, t, cache_file_path, data) ==
    [files EXCEPT ![cache_file_path] = File(json_dump(data), t)]

(***************************************************************************)
(* What the network answers to one GET: a status and a body, or an         *)
(* exception of the HTTP client (no connection).                           *)
(***************************************************************************)
Http(status, text) == [kind |-> "http", status |-> status, text |-> text]
ClientError == [kind |-> "exc", status |-> 0, text |-> <<>>]
\* a body that is no JSON document (an HTML error page)
NotJson == <<Punct("<html>")>>
\* requests: response.ok
response_ok(resp) == resp.status < 400

\* what a fetcher did: the cache directory after it, the number of GETs it
\* issued, the payload it worked on (from the cache or from the network),
\* and what it returned or raised
Did(files, req, data, out) ==
    [files |-> files, req |-> req, data |-> data, ok |-> out.ok, df |-> out.df, err |-> out.err]

(***************************************************************************)
(* stable.py                                                               *)
(***************************************************************************)
\* the records of one chain: one per entry of balances.get('tokens', [])
RECURSIVE TokenRecords(_, _, _)
TokenRecords(chain, tokens, i) ==
    IF i > Len(tokens) THEN <<>>
    ELSE LET token == tokens[i]
             circulating == IF HasKey(token, "circulating") THEN Get(token, "circulating")
                            ELSE JObj(<<>>, <<>>)
             supply == IF HasKey(circulating, "peggedUSD") THEN Get(circulating, "peggedUSD").n
                       ELSE 0
         IN <<[Date |-> strftime_date(Get(token, "date").n), Chain |-> chain, Supply |-> supply]>>
            \o TokenRecords(chain, tokens, i + 1)
RECURSIVE ChainRecords(_, _)
ChainRecords(chain_balances, c) ==
    IF c > Len(chain_balances.k) THEN <<>>
    ELSE LET balances == chain_balances.v[c]
             tokens == IF HasKey(balances, "tokens") THEN Get(balances, "tokens").v ELSE <<>>
         IN TokenRecords(chain_balances.k[c], tokens, 1) \o ChainRecords(chain_balances, c + 1)

\* `not data`
Falsy(data) ==
    \/ data.t = "null"
    \/ data.t \in {"obj", "arr"} /\ data.v = <<>>
    \/ data.t = "num" /\ data.n = 0
    \/ data.t = "str" /\ data.s = ""

process_stablecoin_data(data) ==
    IF Falsy(data) \/ ~HasKey(data, "chainBalances") THEN Raise("Invalid data format.")
    ELSE pivot_fillna(ChainRecords(Get(data, "chainBalances"), 1))

get_stablecoin_circulation(files, t, asset_id, resp) ==
    IF is_cache_valid(files, t, asset_id)
    THEN LET data == load_cache(files, asset_id)
         IN Did(files, 0, data, process_stablecoin_data(data))
    ELSE IF resp.kind = "exc" THEN Did(files, 1, JNull, Raise("ConnectionError"))
    ELSE IF ~response_ok(resp) THEN Did(files, 1, JNull, Raise("HTTP Error"))
    ELSE LET body == json_load(resp.text) IN
         IF ~body.ok THEN Did(files, 1, JNull, Raise("JSONDecodeError"))
         ELSE Did(save_cache(files, t, asset_id, body.val), 1, body.val,
                  process_stablecoin_data(body.val))

\* [asset for asset in data['peggedAssets'] if asset['pegMechanism'] == "fiat-backed"]
fiat_backed(data) ==
    JArr(SelectSeq(Get(data, "peggedAssets").v,
                   LAMBDA asset : Get(asset, "pegMechanism").s = "fiat-backed"))

\* the list of assets travels in the data field; df is not used
fetch_and_cache_assets(files, t, resp) ==
    IF is_cache_valid(files, t, "assets")
    THEN LET data == load_cache(files, "assets") IN Did(files, 0, data, Ok(NoneDf))
    ELSE IF resp.kind = "exc" THEN Did(files, 1, JNull, Raise("ConnectionError"))
    ELSE IF ~response_ok(resp) THEN Did(files, 1, JNull, Raise("HTTP Error"))
    ELSE LET body == json_load(resp.text) IN
         IF ~body.ok THEN Did(files, 1, JNull, Raise("JSONDecodeError"))
         ELSE IF ~HasKey(body.val, "peggedAssets")
              THEN Did(files, 1, JNull, Raise("KeyError: 'peggedAssets'"))
         ELSE LET fiat_backed_assets == fiat_backed(body.val)
              IN Did(save_cache(files, t, "assets", fiat_backed_assets), 1,
                     fiat_backed_assets, Ok(NoneDf))

\* lines 126-129: the Ethereum column becomes Ethereum plus the sum of the
\* columns of l2_chains, then the columns of the wanted chains are selected;
\* naming a column the table lacks is a KeyError
get_filtered_stablecoins_total_supply(total_supply_df, wanted) ==
    IF "Ethereum" \notin total_supply_df.cols THEN Raise("KeyError: 'Ethereum'")
    ELSE IF \E c \in Range(l2_chains) : c \notin total_supply_df.cols
         THEN Raise("KeyError: not in index")
    ELSE IF \E c \in Range(wanted) : c \notin total_supply_df.cols
         THEN Raise("KeyError: not in index")
    ELSE Ok(DataFrame(total_supply_df.idx, Range(wanted),
              [p \in total_supply_df.idx \X Range(wanted) |->
                 IF p[2] = "Ethereum"
                 THEN ValAdd(total_supply_df.val[p],
                             Num(RowSum(total_supply_df, p[1], l2_chains, 1)))
                 ELSE total_supply_df.val[p]]))

(***************************************************************************)
(* evalutate.py                                                            *)
(***************************************************************************)
\* the file is opened for writing before the request is made
fetch_and_cache_data_open_first(files, t, cache_file, resp) ==
    LET opened == [files EXCEPT ![cache_file] = File(<<>>, t)] IN
    IF resp.kind = "exc" THEN Did(opened, 1, JNull, Raise("ConnectionError"))
    ELSE IF resp.status < 200 \/ resp.status >= 300
         THEN Did(opened, 1, JNull, Raise("HTTPError"))
    ELSE LET body == json_load(resp.text) IN
         IF ~body.ok THEN Did(opened, 1, JNull, Raise("JSONDecodeError"))
         ELSE Did([files EXCEPT ![cache_file] = File(json_dump(body.val), t)], 1, body.val,
                  Ok(NoneDf))

\* pycoingecko raises on a response that is not 2xx or not JSON; the file is
\* written once the call has returned
fetch_and_cache_data(files, t, cache_file, resp) ==
    IF resp.kind = "exc" THEN Did(files, 1, JNull, Raise("ConnectionError"))
    ELSE IF resp.status < 200 \/ resp.status >= 300 THEN Did(files, 1, JNull, Raise("HTTPError"))
    ELSE LET body == json_load(resp.text) IN
         IF ~body.ok THEN Did(files, 1, JNull, Raise("JSONDecodeError"))
         ELSE Did(save_cache(files, t, cache_file, body.val), 1, body.val, Ok(NoneDf))

\* lines 31-39 and 70-78: the payload of one token, from the cache or fetched
token_data(files, t, name, resp) ==
    IF files[name].exists
    THEN IF t - files[name].mtime < CACHE_TTL
         THEN Did(files, 0, json_load(files[name].text).val, Ok(NoneDf))
         ELSE fetch_and_cache_data(files, t, name, resp)
    ELSE fetch_and_cache_data(files, t, name, resp)

\* one turn of the loop of get_historical_market_cap_df / get_historical_price_df:
\* field is 'market_caps' or 'prices'
token_df(files, t, name, field, resp) ==
    LET got == token_data(files, t, name, resp) IN
    IF ~got.ok THEN got
    ELSE IF ~HasKey(got.data, field) THEN Did(got.files, got.req, got.data, Raise("KeyError"))
    ELSE Did(got.files, got.req, got.data,
             Ok(PairsToDf(Get(got.data, field), name, "ms")))

\* [(entry['date'], entry['tvl']) for entry in data] succeeds on a list of
\* dicts that have both keys
TvlShape(data) ==
    /\ data.t = "arr"
    /\ \A i \in DOMAIN data.v : HasKey(data.v[i], "date") /\ HasKey(data.v[i], "tvl")
TvlPairs(data) ==
    JArr([i \in DOMAIN data.v |-> JArr(<<Get(data.v[i], "date"), Get(data.v[i], "tvl")>>)])

\* _get_historical_chain_tvl: no cache file is read or written; a failure is
\* printed and None is returned
get_historical_chain_tvl(files, t, chain_name, resp) ==
    IF resp.kind = "exc" THEN Did(files, 1, JNull, Raise("ConnectionError"))
    ELSE IF resp.status # 200 THEN Did(files, 1, JNull, Ok(NoneDf))
    ELSE LET body == json_load(resp.text) IN
         IF ~body.ok \/ ~TvlShape(body.val) THEN Did(files, 1, JNull, Ok(NoneDf))
         ELSE Did(files, 1, body.val,
                  Ok(PairsToDf(TvlPairs(body.val), chain_name, "s")))

(***************************************************************************)
(* The answers the endpoints may give.                                     *)
(***************************************************************************)
Asset(id, name, peg) ==
    JObj(<<"id", "name", "pegMechanism">>, <<JStr(id), JStr(name), JStr(peg)>>)
Catalog(assets) == JObj(<<"peggedAssets">>, <<JArr(assets)>>)
AssetIds == {"1", "2"}
CatalogBodies ==
    { Catalog(<<Asset("1", "Tether", "fiat-backed"), Asset("5", "Dai", "crypto-backed"),
                Asset("2", "USDC", "fiat-backed")>>),
      Catalog(<<>>),
      JObj(<<"message">>, <<JStr("rate limited")>>) }

\* one entry of a chain's 'tokens' list
Token(date, usd) ==
    JObj(<<"date", "circulating">>, <<JNum(date), JObj(<<"peggedUSD">>, <<JNum(usd)>>)>>)
Balances(tokens) == JObj(<<"tokens">>, <<JArr(tokens)>>)
Circulation(names, perChain) == JObj(<<"chainBalances">>, <<JObj(names, perChain)>>)
\* every chain the pipeline names, with one record each on day 1
AllChainNames == <<"Ethereum">> \o l2_chains \o SubSeq(chains, 2, Len(chains))
CirculationBodies ==
    { Circulation(AllChainNames,
                  [c \in DOMAIN AllChainNames |-> Balances(<<Token(SEC_PER_DAY + 3600, 10 * c)>>)]),
      Circulation(<<"Ethereum", "Arbitrum">>,
                  <<Balances(<<Token(SEC_PER_DAY, 100)>>), Balances(<<Token(SEC_PER_DAY, 50)>>)>>),
      Circulation(<<>>, <<>>),
      JObj(<<"message">>, <<JStr("rate limited")>>) }

Sample(ts, x) == JArr(<<JNum(ts), JNum(x)>>)
Chart(prices, caps) == JObj(<<"prices", "market_caps">>, <<JArr(prices), JArr(caps)>>)
\* a time of day that is not midnight (22:13:20), in milliseconds
Evening == 80 * MS_PER_SEC * MS_PER_SEC
\* samples at midnight and in the evening of day 1
ChartBodies ==
    { Chart(<<Sample(MS_PER_DAY, 10), Sample(MS_PER_DAY + Evening, 11)>>,
            <<Sample(MS_PER_DAY, 1000), Sample(MS_PER_DAY + Evening, 1100)>>),
      JObj(<<"error">>, <<JStr("coin not found")>>) }

TvlEntry(date, tvl) == JObj(<<"date", "tvl">>, <<JNum(date), JNum(tvl)>>)
TvlBodies ==
    { JArr(<<TvlEntry(SEC_PER_DAY, 50)>>),
      JObj(<<"message">>, <<JStr("chain not found")>>) }

Responses(bodies) ==
    {Http(200, json_dump(b)) : b \in bodies}
      \cup {Http(200, NotJson), Http(500, NotJson), ClientError}
CatalogResponses == Responses(CatalogBodies)
CirculationResponses == Responses(CirculationBodies)
ChartResponses == Responses(ChartBodies)
TvlResponses == Responses(TvlBodies)

CachePaths == {"assets"} \cup AssetIds \cup Range(chains)

(***************************************************************************)
(* The state: the clock, the cache directory, and one invocation of the    *)
(* script at a time (its position and its local variables).  last, wire    *)
(* and fault record what happened, for the properties below.               *)
(***************************************************************************)
VARIABLES
    now,        \* the wall clock, in hours
    cache,      \* the cache directory: path -> file
    runs,       \* invocations so far
    entry,      \* what the current invocation calls: "main" or "prices"
    pc,         \* the position of the current invocation
    i,          \* the loop index of the current loop
    assets,     \* get_stablecoins_total_supply: assets
    total_supply_df,
    stablecoin_total_supply_df,
    df_list,    \* get_historical_*_df: df_list
    market_cap_df,
    price_df,   \* the table get_historical_price_df returned
    dfs,        \* get_historical_chain_tvl_df: dfs
    tvl_df,
    market_cap_to_total_supply,
    market_cap_to_tlv,
    plotted,    \* the titles of the charts .plot() was called for
    png,        \* the image files written by plt.savefig
    printed,    \* the diagnostic of line 165 was printed
    last,       \* the latest step: for a fetch, what it found and what it did
    wire,       \* path -> the fetch that last wrote the file: the body of the
                \* response it got and what it returned
    fault       \* a fetch of this invocation got a non-2xx status or a malformed body

locals == <<i, assets, total_supply_df, stablecoin_total_supply_df, df_list, market_cap_df,
            price_df, dfs, tvl_df, market_cap_to_total_supply, market_cap_to_tlv,
            plotted, png, printed>>
vars == <<now, cache, runs, entry, pc, locals, last, wire, fault>>

NoResponse == [kind |-> "none", status |-> 0]
NoCall ==
    [op |-> "none", key |-> "", req |-> 0, existed |-> FALSE, age |-> 0, before |-> NoFile,
     at |-> 0, resp |-> NoResponse, ok |-> TRUE, data |-> JNull, df |-> NoneDf]
Step(op, ok) == [NoCall EXCEPT !.op = op, !.ok = ok]
NoWrite == [text |-> <<>>, op |-> "none", data |-> JNull, ok |-> TRUE, df |-> NoneDf]
\* the record of a fetch for key that did r, when the network would answer resp
Call(op, key, resp, r) ==
    [op |-> op, key |-> key, req |-> r.req, existed |-> cache[key].exists,
     age |-> now - cache[key].mtime, before |-> cache[key], at |-> now,
     resp |-> IF r.req = 0 THEN NoResponse ELSE [kind |-> resp.kind, status |-> resp.status],
     ok |-> r.ok, data |-> r.data, df |-> r.df]

\* the body has the shape the endpoint of op promises
WellFormed(op, body) ==
    CASE op = "assets" -> HasKey(body, "peggedAssets")
      [] op = "circ" -> HasKey(body, "chainBalances")
      [] op = "mcap" -> HasKey(body, "market_caps")
      [] op = "price" -> HasKey(body, "prices")
      [] op = "tvl" -> TvlShape(body)
      [] OTHER -> TRUE
NonSuccess(resp) == resp.kind = "http" /\ (resp.status < 200 \/ resp.status >= 300)
Malformed(op, resp) ==
    /\ resp.kind = "http"
    /\ resp.status >= 200 /\ resp.status < 300
    /\ LET body == json_load(resp.text) IN ~body.ok \/ ~WellFormed(op, body.val)

\* what every fetch step does to the cache and to the history
Fetched(op, key, resp, r) ==
    /\ cache' = r.files
    /\ last' = Call(op, key, resp, r)
    /\ wire' = IF r.files[key] # cache[key]
               THEN [wire EXCEPT ![key] = [text |-> resp.text, op |-> op, data |-> r.data,
                                           ok |-> r.ok, df |-> r.df]]
               ELSE wire
    /\ fault' = (fault \/ (r.req > 0 /\ (NonSuccess(resp) \/ Malformed(op, resp))))

Init ==
    /\ now = 0
    /\ cache = [p \in CachePaths |-> NoFile]
    /\ runs = 0
    /\ entry = "main"
    /\ pc = "idle"
    /\ i = 1
    /\ assets = <<>>
    /\ total_supply_df = EmptyDf
    /\ stablecoin_total_supply_df = NoneDf
    /\ df_list = <<>>
    /\ market_cap_df = NoneDf
    /\ price_df = NoneDf
    /\ dfs = <<>>
    /\ tvl_df = NoneDf
    /\ market_cap_to_total_supply = NoneDf
    /\ market_cap_to_tlv = NoneDf
    /\ plotted = {}
    /\ png = {}
    /\ printed = FALSE
    /\ last = NoCall
    /\ wire = [p \in CachePaths |-> NoWrite]
    /\ fault = FALSE

Ended == pc \in {"idle", "done", "raised", "returned"}

\* time passes, between two invocations of the script or during one
Tick ==
    /\ now + TickHours <= MaxTime
    /\ now' = now + TickHours
    /\ UNCHANGED <<cache, runs, entry, pc, locals, last, wire, fault>>

\* the script is started: `python evalutate.py` runs main; e = "prices" is a
\* caller of get_historical_price_df(chains)
Invoke(e) ==
    /\ Ended
    /\ runs < MaxRuns
    /\ runs' = runs + 1
    /\ entry' = e
    /\ pc' = IF e = "main" THEN "assets" ELSE "price"
    /\ i' = 1
    /\ assets' = <<>>
    /\ total_supply_df' = EmptyDf
    /\ stablecoin_total_supply_df' = NoneDf
    /\ df_list' = <<>>
    /\ market_cap_df' = NoneDf
    /\ price_df' = NoneDf
    /\ dfs' = <<>>
    /\ tvl_df' = NoneDf
    /\ market_cap_to_total_supply' = NoneDf
    /\ market_cap_to_tlv' = NoneDf
    /\ plotted' = {}
    /\ png' = {}
    /\ printed' = FALSE
    /\ last' = NoCall
    /\ fault' = FALSE
    /\ UNCHANGED <<now, cache, wire>>

\* get_stablecoins_total_supply, line 97: assets = fetch_and_cache_assets()
MainAssets ==
    /\ pc = "assets"
    /\ \E resp \in CatalogResponses :
         LET r == fetch_and_cache_assets(cache, now, resp) IN
         /\ Fetched("assets", "assets", resp, r)
         /\ IF ~r.ok
            THEN pc' = "raised" /\ UNCHANGED assets
            ELSE /\ assets' = r.data.v
                 /\ pc' = IF r.data.v = <<>> THEN "filter" ELSE "circ"
    /\ UNCHANGED <<now, runs, entry, i, total_supply_df, stablecoin_total_supply_df, df_list,
                   market_cap_df, price_df, dfs, tvl_df, market_cap_to_total_supply,
                   market_cap_to_tlv, plotted, png, printed>>

\* get_stablecoins_total_supply, lines 99-103: one turn of the loop
MainCirculation ==
    /\ pc = "circ"
    /\ \E resp \in CirculationResponses :
         LET asset_id == Get(assets[i], "id").s
             r == get_stablecoin_circulation(cache, now, asset_id, resp)
         IN /\ Fetched("circ", asset_id, resp, r)
            /\ IF ~r.ok
               THEN pc' = "raised" /\ UNCHANGED <<i, total_supply_df>>
               ELSE /\ total_supply_df' = df_add(total_supply_df, r.df)
                    /\ i' = IF i = Len(assets) THEN 1 ELSE i + 1
                    /\ pc' = IF i = Len(assets) THEN "filter" ELSE "circ"
    /\ UNCHANGED <<now, runs, entry, assets, stablecoin_total_supply_df, df_list,
                   market_cap_df, price_df, dfs, tvl_df, market_cap_to_total_supply,
                   market_cap_to_tlv, plotted, png, printed>>

\* stable.py lines 126-129, then main lines 164-166
MainFilter ==
    /\ pc = "filter"
    /\ LET r == get_filtered_stablecoins_total_supply(total_supply_df, chains) IN
       /\ last' = Step("filter", r.ok)
       /\ IF ~r.ok
          THEN pc' = "raised" /\ UNCHANGED <<stablecoin_total_supply_df, printed>>
          ELSE /\ stablecoin_total_supply_df' = r.df
               /\ printed' = IsEmpty(r.df)
               /\ pc' = IF IsEmpty(r.df) THEN "returned" ELSE "mcap"
    /\ UNCHANGED <<now, cache, runs, entry, i, assets, total_supply_df, df_list,
                   market_cap_df, price_df, dfs, tvl_df, market_cap_to_total_supply,
                   market_cap_to_tlv, plotted, png, wire, fault>>

\* get_historical_market_cap_df: one turn of the loop; after the last one the
\* tables are merged
MainMarketCap ==
    /\ pc = "mcap"
    /\ \E resp \in ChartResponses :
         LET r == token_df(cache, now, chains[i], "market_caps", resp) IN
         /\ Fetched("mcap", chains[i], resp, r)
         /\ IF ~r.ok
            THEN pc' = "raised" /\ UNCHANGED <<i, df_list, market_cap_df>>
            ELSE /\ df_list' = Append(df_list, r.df)
                 /\ i' = IF i = Len(chains) THEN 1 ELSE i + 1
                 /\ pc' = IF i = Len(chains) THEN "tvl" ELSE "mcap"
                 /\ market_cap_df' = IF i = Len(chains)
                                     THEN pd_concat(Append(df_list, r.df)).df
                                     ELSE market_cap_df
    /\ UNCHANGED <<now, runs, entry, assets, total_supply_df, stablecoin_total_supply_df,
                   price_df, dfs, tvl_df, market_cap_to_total_supply, market_cap_to_tlv,
                   plotted, png, printed>>

\* get_historical_price_df: one turn of the loop; after the last one the
\* tables are merged and returned
Price ==
    /\ pc = "price"
    /\ \E resp \in ChartResponses :
         LET r == token_df(cache, now, chains[i], "prices", resp) IN
         /\ Fetched("price", chains[i], resp, r)
         /\ IF ~r.ok
            THEN pc' = "raised" /\ UNCHANGED <<i, df_list, price_df>>
            ELSE /\ df_list' = Append(df_list, r.df)
                 /\ i' = IF i = Len(chains) THEN 1 ELSE i + 1
                 /\ pc' = IF i = Len(chains) THEN "done" ELSE "price"
                 /\ price_df' = IF i = Len(chains)
                                THEN pd_concat(Append(df_list, r.df)).df
                                ELSE price_df
    /\ UNCHANGED <<now, runs, entry, assets, total_supply_df, stablecoin_total_supply_df,
                   market_cap_df, dfs, tvl_df, market_cap_to_total_supply, market_cap_to_tlv,
                   plotted, png, printed>>

\* get_historical_chain_tvl_df: one turn of the loop
MainTvl ==
    /\ pc = "tvl"
    /\ \E resp \in TvlResponses :
         LET r == get_historical_chain_tvl(cache, now, chains[i], resp) IN
         /\ Fetched("tvl", chains[i], resp, r)
         /\ IF ~r.ok
            THEN pc' = "raised" /\ UNCHANGED <<i, dfs>>
            ELSE /\ dfs' = Append(dfs, r.df)
                 /\ i' = IF i = Len(chains) THEN 1 ELSE i + 1
                 /\ pc' = IF i = Len(chains) THEN "ratio" ELSE "tvl"
    /\ UNCHANGED <<now, runs, entry, assets, total_supply_df, stablecoin_total_supply_df,
                   df_list, market_cap_df, price_df, tvl_df, market_cap_to_total_supply,
                   market_cap_to_tlv, plotted, png, printed>>

\* line 142, pd.concat(dfs, axis=1), then main lines 171-180
MainRatio ==
    /\ pc = "ratio"
    /\ LET merged == pd_concat(dfs)
           r1 == compute_ratio(market_cap_df, stablecoin_total_supply_df)
           r2 == compute_ratio(market_cap_df, merged.df)
       IN IF ~merged.ok \/ ~r1.ok \/ ~r2.ok
          THEN pc' = "raised"
               /\ UNCHANGED <<tvl_df, market_cap_to_total_supply, market_cap_to_tlv>>
          ELSE /\ tvl_df' = merged.df
               /\ market_cap_to_total_supply' = r1.df
               /\ market_cap_to_tlv' = r2.df
               /\ pc' = "plot1"
    /\ last' = Step("ratio", pc' # "raised")
    /\ UNCHANGED <<now, cache, runs, entry, i, assets, total_supply_df,
                   stablecoin_total_supply_df, df_list, market_cap_df, price_df, dfs,
                   plotted, png, printed, wire, fault>>

\* DataFrame.plot of a table without rows: pandas either raises
\* "no numeric data to plot" or draws an empty chart, depending on its version
plot_succeeds(df) == IF df.idx = {} THEN {TRUE, FALSE} ELSE {TRUE}

\* main lines 183-190
MainPlotSupply ==
    /\ pc = "plot1"
    /\ plotted' = plotted \cup {"Market Cap to Total Supply"}
    /\ \E drawn \in plot_succeeds(market_cap_to_total_supply) :
         IF drawn
         THEN png' = png \cup {"market_cap_to_total_supply.png"} /\ pc' = "plot2"
         ELSE png' = png /\ pc' = "raised"
    /\ last' = Step("plot", pc' # "raised")
    /\ UNCHANGED <<now, cache, runs, entry, i, assets, total_supply_df,
                   stablecoin_total_supply_df, df_list, market_cap_df, price_df, dfs, tvl_df,
                   market_cap_to_total_supply, market_cap_to_tlv, printed, wire, fault>>

\* main lines 193-199
MainPlotTvl ==
    /\ pc = "plot2"
    /\ plotted' = plotted \cup {"Market Cap to TVL"}
    /\ \E drawn \in plot_succeeds(market_cap_to_tlv) :
         IF drawn
         THEN png' = png \cup {"market_cap_to_tvl.png"} /\ pc' = "done"
         ELSE png' = png /\ pc' = "raised"
    /\ last' = Step("plot", pc' # "raised")
    /\ UNCHANGED <<now, cache, runs, entry, i, assets, total_supply_df,
                   stablecoin_total_supply_df, df_list, market_cap_df, price_df, dfs, tvl_df,
                   market_cap_to_total_supply, market_cap_to_tlv, printed, wire, fault>>

Next ==
    \/ Tick
    \/ Invoke("main")
    \/ Invoke("prices")
    \/ MainAssets
    \/ MainCirculation
    \/ MainFilter
    \/ MainMarketCap
    \/ Price
    \/ MainTvl
    \/ MainRatio
    \/ MainPlotSupply
    \/ MainPlotTvl

Spec == Init /\ [][Next]_vars
(***************************************************************************)
(* compute_ratio on its own: the two tables are drawn from the tables over *)
(* the labels below, and the function is applied to them.                  *)
(***************************************************************************)
RatioLabels == {Timestamp(d, 0) : d \in 1..MaxDay} \cup {DateStr(1)}
RatioTables ==
    {DataFrame(I, C, [p \in I \X C |-> Num(k * (p[1].day + 1))]) :
        I \in SUBSET RatioLabels, C \in {{"Ethereum"}, {"Ethereum", "Solana"}}, k \in {1, 2}}

InitRatio ==
    /\ now = 0
    /\ cache = [p \in CachePaths |-> NoFile]
    /\ runs = 0
    /\ entry = "compute_ratio"
    /\ pc = "call"
    /\ i = 1
    /\ assets = <<>>
    /\ total_supply_df = EmptyDf
    /\ stablecoin_total_supply_df = NoneDf
    /\ df_list = <<>>
    /\ market_cap_df \in RatioTables
    /\ price_df = NoneDf
    /\ dfs = <<>>
    /\ tvl_df \in RatioTables
    /\ market_cap_to_total_supply = NoneDf
    /\ market_cap_to_tlv = NoneDf
    /\ plotted = {}
    /\ png = {}
    /\ printed = FALSE
    /\ last = NoCall
    /\ wire = [p \in CachePaths |-> NoWrite]
    /\ fault = FALSE

\* market_cap_to_tlv = compute_ratio(market_cap_df, tvl_df)
CallRatio ==
    /\ pc = "call"
    /\ LET r == compute_ratio(market_cap_df, tvl_df) IN
       /\ market_cap_to_tlv' = r.df
       /\ last' = Step("ratio", r.ok)
       /\ pc' = IF r.ok THEN "done" ELSE "raised"
    /\ UNCHANGED <<now, cache, runs, entry, i, assets, total_supply_df,
                   stablecoin_total_supply_df, df_list, market_cap_df, price_df, dfs, tvl_df,
                   market_cap_to_total_supply, plotted, png, printed, wire, fault>>

NextRatio == CallRatio

SpecRatio == InitRatio /\ [][NextRatio]_vars

(***************************************************************************)
(* Properties.                                                             *)
(***************************************************************************)
\* the fetchers that keep a cache file
CachedOps == {"assets", "circ", "mcap", "price"}
\* the latest step was a fetch that found a file younger than 24 hours
FoundFresh == last.existed /\ last.age < CACHE_TTL
\* the latest step was a fetch answered from the cache
CacheHit == last.op \in CachedOps /\ last.req = 0 /\ last.existed

\* C1: a fetch for a key whose cache file exists and was written less than
\* 24 hours before issues no network call and leaves the file as it was,
\* content and modification time.
C1_FreshFetchIsIdempotent ==
    (last.op \in CachedOps /\ FoundFresh) =>
        (last.req = 0 /\ cache[last.key] = last.before)

\* a second fetch of an asset's circulation, 12 hours after the first wrote it
C1_Witness ==
    /\ last.op = "circ"
    /\ last.existed
    /\ last.age > 0
    /\ last.age < CACHE_TTL
    /\ last.req = 0

\* C2: once a fetch of the invocation has got a non-2xx response or a
\* malformed body, the invocation does not reach the presentation of ratios
\* (it has raised).
C2_FailFast == fault => pc \notin {"plot1", "plot2", "done"}

C4_CacheConsultedFirst == last.req > 0 => ~FoundFresh

\* C5: the index of compute_ratio(df1, df2) is the set of labels the indexes
\* of df1 and df2 share: none that either lacks, and all that both have.
C5_RatioIndexIsIntersection ==
    (entry = "compute_ratio" /\ pc # "call") =>
        /\ pc = "done"
        /\ market_cap_to_tlv.kind = "df"
        /\ \A d \in market_cap_to_tlv.idx : d \in market_cap_df.idx /\ d \in tvl_df.idx
        /\ \A d \in market_cap_df.idx : d \in tvl_df.idx => d \in market_cap_to_tlv.idx

\* the two tables overlap, and each has a label the other lacks
C5_Witness ==
    /\ entry = "compute_ratio"
    /\ pc = "done"
    /\ market_cap_to_tlv.idx # {}
    /\ \E d \in market_cap_df.idx : d \notin tvl_df.idx
    /\ \E d \in tvl_df.idx : d \notin market_cap_df.idx

\* C6: a ratio table without rows is never presented: no plot call and no
\* PNG for it, and the invocation does not raise.
C6_EmptyRatioIsNotPresented ==
    /\ (market_cap_to_total_supply.kind = "df" /\ market_cap_to_total_supply.idx = {}) =>
          /\ "Market Cap to Total Supply" \notin plotted
          /\ "market_cap_to_total_supply.png" \notin png
          /\ pc # "raised"
    /\ (market_cap_to_tlv.kind = "df" /\ market_cap_to_tlv.idx = {}) =>
          /\ "Market Cap to TVL" \notin plotted
          /\ "market_cap_to_tvl.png" \notin png
          /\ pc # "raised"

\* the supply of the configured L2 chains the table has, at label d
RECURSIVE SumPresent(_, _, _, _)
SumPresent(df, d, names, k) ==
    IF k > Len(names) THEN 0
    ELSE (IF names[k] \in df.cols /\ df.val[<<d, names[k]>>].c = "num"
          THEN df.val[<<d, names[k]>>].n ELSE 0)
         + SumPresent(df, d, names, k + 1)

\* C7: for a supply table that has an "Ethereum" column and any subset of
\* the configured L2 chains, the Ethereum column of the filtered table is,
\* on every date, Ethereum plus the sum of the L2 chains of L2_CHAINS.
C7_EthereumPlusL2 ==
    (last.op = "filter" /\ "Ethereum" \in total_supply_df.cols) =>
        /\ last.ok
        /\ \A d \in total_supply_df.idx :
             stablecoin_total_supply_df.val[<<d, "Ethereum">>] =
               Num(total_supply_df.val[<<d, "Ethereum">>].n
                   + SumPresent(total_supply_df, d, L2_CHAINS, 1))

\* the supply data set is empty: the catalog has no fiat-backed asset, or the
\* asset fetched last has no balance record
NoSupplyData ==
    \/ last.op = "filter" /\ IsEmpty(total_supply_df)
    \/ /\ last.op = "circ"
       /\ HasKey(last.data, "chainBalances")
       /\ ChainRecords(Get(last.data, "chainBalances"), 1) = <<>>

\* C8: with an empty supply data set main does not raise; once the supply
\* step is over it has printed the diagnostic and returned, with no image.
C8_EmptySupplyIsSoftFailure ==
    NoSupplyData =>
        /\ pc # "raised"
        /\ last.op = "filter" => (pc = "returned" /\ printed /\ png = {})

\* [asset for asset in body['peggedAssets'] if asset['pegMechanism'] == "fiat-backed"]
FiatOnly(body) ==
    LET all == Get(body, "peggedAssets").v
        keep == {n \in DOMAIN all : Get(all[n], "pegMechanism").s = "fiat-backed"}
        F[n \in 0..Len(all)] ==
            IF n = 0 THEN <<>> ELSE IF n \in keep THEN Append(F[n - 1], all[n]) ELSE F[n - 1]
    IN JArr(F[Len(all)])

ChartSamples == Get(last.data, IF last.op = "mcap" THEN "market_caps" ELSE "prices").v

\* C10: the table of a price or market-cap fetch is indexed by the calendar
\* days of its samples: a sample at t ms has the label of day
\* floor(t / 86400000).
C10_DayLevelLabels ==
    (last.op \in {"mcap", "price"} /\ last.ok) =>
        last.df.idx = {Timestamp(ChartSamples[n].v[1].n \div MS_PER_DAY, 0) :
                          n \in DOMAIN ChartSamples}
====
